---- MODULE Spec2Model ----
(***************************************************************************)
(* Franchise traversal engine of utils/anime_franchise_tree.py:            *)
(* the classifier (is_same_franchise, is_strong_franchise_match), the      *)
(* keyword extractor and the breadth-first walk build_franchise_tree.      *)
(*                                                                         *)
(* Python strings are sequences of one-character strings.  None and ''    *)
(* are both the empty sequence: the code tests titles only with `not t`    *)
(* before it uses them, and both are falsy.                                *)
(***************************************************************************)
EXTENDS Integers, Sequences, FiniteSets, TLC

\* ------------------------------------------------------------------------
\* Bounds of the model
\* ------------------------------------------------------------------------
MaxRootWords == 2      \* words in a root title given to the classifier
MaxRelatedWords == 2   \* words in a candidate title given to the classifier
MaxId == 3             \* media ids are 1..MaxId
MaxDepthBound == 2     \* the depth bound the traversal is run with
MaxProcs == 2          \* processes that call fetch_mal_api on one cache directory
MaxCalls == 3          \* calls of fetch_mal_api made in all

\* MAX_DEPTH = 20 in the source; the walk is checked with a bound small enough
\* for a chain of MaxId entries to reach it
MAX_DEPTH == MaxDepthBound

\* ------------------------------------------------------------------------
\* str methods used by the code
\* ------------------------------------------------------------------------
Lowers == <<"a","b","c","d","e","f","g","h","i","j","k","l","m",
            "n","o","p","q","r","s","t","u","v","w","x","y","z">>
Uppers == <<"A","B","C","D","E","F","G","H","I","J","K","L","M",
            "N","O","P","Q","R","S","T","U","V","W","X","Y","Z">>
Digits == {"0","1","2","3","4","5","6","7","8","9"}
Whitespace == {" "}

Range(f) == {f[i] : i \in DOMAIN f}

\* the lower-case letter of every upper-case letter
LowerOf == [c \in Range(Uppers) |-> Lowers[CHOOSE i \in DOMAIN Uppers : Uppers[i] = c]]

\* c.lower() for one character
LowerChar(c) == IF c \in DOMAIN LowerOf THEN LowerOf[c] ELSE c

\* s.lower()
Lower(s) == [i \in 1..Len(s) |-> LowerChar(s[i])]

\* `not s` is false
Truthy(s) == Len(s) > 0

\* first index at which sub occurs in s, 0 when it does not (s.find(sub) + 1)
Find(sub, s) ==
    LET hits == {i \in 1..(Len(s) - Len(sub) + 1) : SubSeq(s, i, i + Len(sub) - 1) = sub}
    IN  IF hits = {} THEN 0 ELSE CHOOSE i \in hits : \A j \in hits : i <= j

\* sub in s
In(sub, s) == \E i \in 1..(Len(s) - Len(sub) + 1) : SubSeq(s, i, i + Len(sub) - 1) = sub

\* s.replace(old, new) for a one-character old
RECURSIVE Replace(_, _, _)
Replace(s, old, new) ==
    IF s = <<>> THEN <<>>
    ELSE (IF Head(s) = old THEN new ELSE <<Head(s)>>) \o Replace(Tail(s), old, new)

\* s.split(sep): the pieces between the non-overlapping occurrences of sep, left to right
RECURSIVE Split(_, _)
Split(s, sep) ==
    LET i == Find(sep, s)
    IN  IF i = 0 THEN <<s>>
        ELSE <<SubSeq(s, 1, i - 1)>> \o Split(SubSeq(s, i + Len(sep), Len(s)), sep)

\* s.strip()
RECURSIVE LStrip(_)
LStrip(s) == IF s # <<>> /\ Head(s) \in Whitespace THEN LStrip(Tail(s)) ELSE s
RECURSIVE RStrip(_)
RStrip(s) ==
    IF s # <<>> /\ s[Len(s)] \in Whitespace THEN RStrip(SubSeq(s, 1, Len(s) - 1)) ELSE s
Strip(s) == RStrip(LStrip(s))

\* s.split(): the maximal runs of non-whitespace characters, left to right
SplitWs(s) ==
    LET starts == {i \in 1..Len(s) :
                     s[i] \notin Whitespace /\ (i = 1 \/ s[i - 1] \in Whitespace)}
        end_of(i) == CHOOSE j \in i..Len(s) :
                       /\ \A k \in i..j : s[k] \notin Whitespace
                       /\ (j = Len(s) \/ s[j + 1] \in Whitespace)
        nth(n) == CHOOSE i \in starts : Cardinality({j \in starts : j < i}) = n - 1
    IN  [n \in 1..Cardinality(starts) |-> SubSeq(s, nth(n), end_of(nth(n)))]

\* ------------------------------------------------------------------------
\* extract_root_keywords
\* ------------------------------------------------------------------------
exclude_words ==
    { <<"t","h","e">>, <<"a">>, <<"a","n">>, <<"o","f">>, <<"a","n","d">>, <<"o","r">>,
      <<"i","n">>, <<"o","n">>, <<"a","t">>, <<"t","o">>, <<"f","o","r">>,
      <<"w","i","t","h">>, <<"b","y">> }

\* \w and \s of the regular expression [^\w\s]
WordChars == Range(Lowers) \cup Range(Uppers) \cup Digits \cup {"_"}
IsWordChar(c) == c \in WordChars

\* re.sub(r"[^\w\s]", " ", text.lower())
SubNonWord(s) ==
    [i \in 1..Len(s) |-> IF IsWordChar(s[i]) \/ s[i] \in Whitespace THEN s[i] ELSE " "]

MinKeywordLen == 2

\* the words clean_and_add(text) adds
clean_and_add(text) ==
    {w \in Range(SplitWs(SubNonWord(Lower(text)))) :
        w \notin exclude_words /\ Len(w) > MinKeywordLen}

\* root_info is a record; a key the dict lacks is a field the record lacks
extract_root_keywords(root_info) ==
    (IF "title" \in DOMAIN root_info /\ Truthy(root_info.title)
        THEN clean_and_add(root_info.title) ELSE {})
    \cup
    (IF "title_english" \in DOMAIN root_info /\ Truthy(root_info.title_english)
        THEN clean_and_add(root_info.title_english) ELSE {})
    \cup
    (IF "synonyms" \in DOMAIN root_info
        THEN UNION {clean_and_add(root_info.synonyms[i]) : i \in DOMAIN root_info.synonyms}
        ELSE {})

\* ------------------------------------------------------------------------
\* Relation labels
\* ------------------------------------------------------------------------
\* relation.get('relation') of an edge without the key
NoneLabel == "<None>"

\* ALLOWED_RELATIONS as the module leaves it (the second assignment, equal to the first)
ALLOWED_RELATIONS ==
    { "Sequel", "Prequel", "Side story", "Side Story", "Spin-off", "Summary",
      "Alternative version", "Parent story", "Full story", "Other", "Character",
      "Alternate setting" }

always_accept_relations_with_sequel ==
    { "Side story", "Side Story", "Spin-off", "Character", "Summary", "Full story",
      "Parent story", "Alternative version", "Alternate setting", "Sequel" }

always_accept_relations_with_other ==
    { "Side story", "Side Story", "Spin-off", "Character", "Summary", "Full story",
      "Parent story", "Alternative version", "Alternate setting", "Other" }

always_accept_relations_without_summary ==
    { "Side story", "Side Story", "Spin-off", "Character", "Full story",
      "Parent story", "Alternative version", "Alternate setting" }

always_accept_relations ==
    { "Side story", "Side Story", "Spin-off", "Character", "Summary", "Full story",
      "Parent story", "Alternative version", "Alternate setting" }

conditional_relations == { "Other", "Special" }

\* ------------------------------------------------------------------------
\* is_same_franchise: the definition in effect (the later of the two in the file)
\* ------------------------------------------------------------------------
KEYWORD_RATIO_NUM == 3
KEYWORD_RATIO_DEN == 5

keyword_ratio_reached_half(matches, total) == matches * 2 >= total

keyword_ratio_reversed(matches, total) == matches * 5 <= total * 3

\* matches / len(root_keywords) >= 0.6, in integers (0.6 = 3/5)
keyword_ratio_reached(matches, total) ==
    matches * KEYWORD_RATIO_DEN >= total * KEYWORD_RATIO_NUM

\* sum(1 for word in root_keywords if word in related_lower)
keyword_matches(root_keywords, related_lower) ==
    Cardinality({word \in root_keywords : In(word, related_lower)})

is_same_franchise(root_title, related_title, relation_type, root_characters, root_keywords) ==
    IF ~Truthy(root_title) \/ ~Truthy(related_title) THEN FALSE
    ELSE LET root_lower == Lower(root_title)
             related_lower == Lower(related_title)
         IN  IF relation_type \in always_accept_relations THEN TRUE
             ELSE IF relation_type \in conditional_relations
             THEN \/ In(root_lower, related_lower) \/ In(related_lower, root_lower)
                  \/ \E kw \in root_keywords : In(kw, related_lower)
                  \/ \E cname \in root_characters : In(Lower(cname), related_lower)
             ELSE IF root_keywords # {}
             THEN keyword_ratio_reached(keyword_matches(root_keywords, related_lower),
                                        Cardinality(root_keywords))
             ELSE FALSE

\* ------------------------------------------------------------------------
\* fuzz.token_set_ratio(s1, s2) >= 85, as the earlier is_same_franchise calls it
\* (rapidfuzz: no preprocessing of the two strings, tokens are s.split())
\* ------------------------------------------------------------------------
FUZZY_THRESHOLD == 85

\* code-point order of the characters the titles are made of
CharOrder == <<" ">> \o Uppers \o <<"_">> \o Lowers \o <<"×">>
CharRank(c) == CHOOSE i \in DOMAIN CharOrder : CharOrder[i] = c

\* s < t for str
RECURSIVE StrLess(_, _)
StrLess(s, t) ==
    IF t = <<>> THEN FALSE
    ELSE IF s = <<>> THEN TRUE
    ELSE IF Head(s) # Head(t) THEN CharRank(Head(s)) < CharRank(Head(t))
    ELSE StrLess(Tail(s), Tail(t))

\* " ".join(sorted(tokens))
RECURSIVE JoinSorted(_)
JoinSorted(tokens) ==
    IF tokens = {} THEN <<>>
    ELSE LET first == CHOOSE t \in tokens : \A u \in tokens \ {t} : StrLess(t, u)
             rest == JoinSorted(tokens \ {first})
         IN  IF rest = <<>> THEN first ELSE first \o <<" ">> \o rest

\* length of a longest common subsequence
RECURSIVE LCS(_, _)
LCS(s, t) ==
    IF s = <<>> \/ t = <<>> THEN 0
    ELSE IF Head(s) = Head(t) THEN 1 + LCS(Tail(s), Tail(t))
    ELSE LET a == LCS(Tail(s), t)
             b == LCS(s, Tail(t))
         IN  IF a >= b THEN a ELSE b

\* Indel.distance
indel_distance(s, t) == Len(s) + Len(t) - 2 * LCS(s, t)

\* 100 - 100 * dist / lensum >= FUZZY_THRESHOLD, in integers
norm_reaches_threshold(dist, lensum) ==
    IF lensum = 0 THEN TRUE ELSE 100 * dist <= (100 - FUZZY_THRESHOLD) * lensum

token_set_ratio_reaches_threshold(s1, s2) ==
    LET tokens_a == Range(SplitWs(s1))
        tokens_b == Range(SplitWs(s2))
        intersect == tokens_a \cap tokens_b
        diff_ab == tokens_a \ tokens_b
        diff_ba == tokens_b \ tokens_a
        diff_ab_joined == JoinSorted(diff_ab)
        diff_ba_joined == JoinSorted(diff_ba)
        ab_len == Len(diff_ab_joined)
        ba_len == Len(diff_ba_joined)
        sect_len == Len(JoinSorted(intersect))
        sep == IF sect_len # 0 THEN 1 ELSE 0
        sect_ab_len == sect_len + sep + ab_len
        sect_ba_len == sect_len + sep + ba_len
    IN  IF tokens_a = {} \/ tokens_b = {} THEN FALSE
        ELSE IF intersect # {} /\ (diff_ab = {} \/ diff_ba = {}) THEN TRUE
        ELSE \/ norm_reaches_threshold(indel_distance(diff_ab_joined, diff_ba_joined),
                                       sect_ab_len + sect_ba_len)
             \/ sect_len # 0 /\ norm_reaches_threshold(sep + ab_len, sect_len + sect_ab_len)
             \/ sect_len # 0 /\ norm_reaches_threshold(sep + ba_len, sect_len + sect_ba_len)

\* ------------------------------------------------------------------------
\* is_same_franchise: the earlier definition, which the later one replaces
\* when the module is loaded
\* ------------------------------------------------------------------------
is_same_franchise_overridden(root_title, related_title, relation_type, root_characters, root_keywords, root_studios, related_studios) ==
    IF ~Truthy(root_title) \/ ~Truthy(related_title) THEN FALSE
    ELSE LET root_lower == Lower(root_title)
             related_lower == Lower(related_title)
         IN  IF relation_type \in always_accept_relations THEN TRUE
             ELSE IF relation_type \in conditional_relations
             THEN \/ In(root_lower, related_lower) \/ In(related_lower, root_lower)
                  \/ \E kw \in root_keywords : In(kw, related_lower)
                  \/ \E cname \in root_characters : In(Lower(cname), related_lower)
                  \/ root_studios \cap related_studios # {}
                  \/ token_set_ratio_reaches_threshold(root_title, related_title)
             ELSE IF root_keywords # {}
             THEN keyword_ratio_reached(keyword_matches(root_keywords, related_lower),
                                        Cardinality(root_keywords))
             ELSE FALSE

\* ------------------------------------------------------------------------
\* is_strong_franchise_match
\* ------------------------------------------------------------------------
\* match_root / has_root: the same test on the whole title and on each part
has_root(root_title, part, root_keywords, root_characters) ==
    \/ In(Lower(root_title), part)
    \/ \E kw \in root_keywords : In(kw, part)
    \/ \E c \in root_characters : In(Lower(c), part)

\* [p.strip() for p in rl.replace("×", " x ").split(" x ")]
crossover_parts(rl) ==
    LET raw == Split(Replace(rl, "×", <<" ", "x", " ">>), <<" ", "x", " ">>)
    IN  [i \in 1..Len(raw) |-> Strip(raw[i])]

some_part_has_root(root_title, parts, root_keywords, root_characters) ==
    \E i \in 1..Len(parts) : has_root(root_title, parts[i], root_keywords, root_characters)

\* the for loop over parts: False at the first part without a root match
every_part_has_root(root_title, parts, root_keywords, root_characters) ==
    \A i \in 1..Len(parts) : has_root(root_title, parts[i], root_keywords, root_characters)

is_strong_franchise_match(root_title, related_title, root_keywords, root_characters) ==
    IF ~Truthy(root_title) \/ ~Truthy(related_title) THEN FALSE
    ELSE LET rl == Lower(related_title)
         IN  IF ~has_root(root_title, rl, root_keywords, root_characters) THEN FALSE
             ELSE IF In(<<" ", "x", " ">>, rl) \/ In(<<"×">>, rl)
             THEN every_part_has_root(root_title, crossover_parts(rl),
                                      root_keywords, root_characters)
             ELSE TRUE

\* ------------------------------------------------------------------------
\* The catalogue behind the API, and the values the fetchers return
\* ------------------------------------------------------------------------
Ids == 1..MaxId

\* ids of the three worked scenarios of the traversal
ScenarioIds == {1, 2, 3, 4}

\* ints that are the id of no entry of the catalogue
NonPositiveIds == {-1, 0}

AllIds == Ids \cup ScenarioIds \cup NonPositiveIds

\* the catalogue the API serves: "open" (any relations response), or the
\* fixed graph of scenario "A", "B", "C" or "D"
VARIABLE world

Scenarios == {"A", "B", "C", "D"}
Worlds == {"open"} \cup Scenarios

\* titles of the scenario catalogue
ScenarioTitle(id) ==
    CASE id = 1 -> <<"A","l","p","h","a"," ","Q","u","e","s","t">>
      [] id = 2 -> <<"A","l","p","h","a"," ","Q","u","e","s","t"," ","I","I">>
      [] id = 3 -> <<"R","a","n","d","o","m"," ","U","n","r","e","l","a","t","e","d"," ","S","h","o","w">>
      [] OTHER  -> <<"A","l","p","h","a"," ","Q","u","e","s","t"," ","x"," ","B","e","t","a"," ","S","a","g","a">>

\* titles of the catalogue of scenario D: a root with a prequel and a sequel
ScenarioDTitle(id) ==
    CASE id = 1 -> <<"A","l","p","h","a"," ","Q","u","e","s","t">>
      [] id = 2 -> <<"A","l","p","h","a"," ","Q","u","e","s","t"," ","I","I">>
      [] OTHER  -> <<"A","l","p","h","a"," ","Q","u","e","s","t"," ","Z","e","r","o">>

\* one related entry of a relations response: relation['relation'] of its edge,
\* entry['mal_id'] (an int or not) and entry['name']
Entry(label, id, name) == [label |-> label, is_int |-> TRUE, id |-> id, name |-> name]

\* data['data'] of the relations response of each id in each scenario:
\*   A: 1 -Sequel-> 2
\*   B: 1 -Other-> 3
\*   C: 1 -Other-> 4 (a crossover), 4 -Side story-> 2
\*   D: 1 -Prequel-> 3, 1 -Sequel-> 2 (in this order), 3 -Sequel-> 1
ScenarioRelations(w, id) ==
    CASE w = "A" /\ id = 1 -> <<Entry("Sequel", 2, ScenarioTitle(2))>>
      [] w = "B" /\ id = 1 -> <<Entry("Other", 3, ScenarioTitle(3))>>
      [] w = "C" /\ id = 1 -> <<Entry("Other", 4, ScenarioTitle(4))>>
      [] w = "C" /\ id = 4 -> <<Entry("Side story", 2, ScenarioTitle(2))>>
      [] w = "D" /\ id = 1 -> <<Entry("Prequel", 3, ScenarioDTitle(3)),
                                Entry("Sequel", 2, ScenarioDTitle(2))>>
      [] w = "D" /\ id = 3 -> <<Entry("Sequel", 1, ScenarioDTitle(1))>>
      [] OTHER -> <<>>

\* data['title'] of the detail response of each id; in the open catalogue id 3
\* has no title (null)
ApiDefaultTitle(id) ==
    IF world = "D" THEN ScenarioDTitle(id)
    ELSE IF world \in Scenarios THEN ScenarioTitle(id)
    ELSE CASE id = 1 -> <<"A","b","c">>
           [] id = 2 -> <<"X","y","z">>
           [] id = 3 -> <<>>
           [] OTHER  -> <<"a","b">>

\* data['title_english'] of each id, empty when the API has none
ApiEnglishTitle(id) ==
    IF world = "open" /\ id = 2 THEN <<"A","b","c"," ","X","y","z">> ELSE <<>>

\* data['title_synonyms'] of each id
ApiSynonyms(id) ==
    IF world = "open" /\ id = 1 THEN << <<"X","y","z">> >> ELSE <<>>

\* line 638: data.get("title_english") or data.get("title")
ApiTitle(id) ==
    IF Truthy(ApiEnglishTitle(id)) THEN ApiEnglishTitle(id) ELSE ApiDefaultTitle(id)

\* character names of each id
ApiCharacters(id) ==
    IF world \in Scenarios THEN (IF id = 1 THEN {<<"K","a","i">>} ELSE {})
    ELSE IF id = 1 THEN {<<"X","y","z">>} ELSE {}

\* names a related entry can carry: none, the first root's title, another
\* title, and a crossover of the two
EntryNames ==
    { <<>>, <<"A","b","c">>, <<"X","y","z">>, <<"A","b","c"," ","x"," ","X","y","z">> }

\* labels an edge can carry in the walk (Special is not in ALLOWED_RELATIONS)
EdgeLabels == { "Sequel", "Side story", "Other", "Special" }

\* no entry has been reached
NoLabels == [reached |-> {}, classified |-> {}, rejected |-> {}]

\* a value of the lru_cache that has no entry yet, and the value None
Unset == [tag |-> "unset"]
NoneInfo == [tag |-> "None"]

\* fetch_anime_info(mal_id): the dictionary built from a detail response
\* (called without user data by fetch_anime_info_cached)
fetch_anime_info(mal_id) ==
    [tag |-> "info", id |-> mal_id, title |-> ApiTitle(mal_id),
     user_status |-> "Not in list", in_user_list |-> FALSE, status |-> "Not in list"]

\* `if not info` (None is falsy, a non-empty dict is truthy)
IsInfo(info) == info.tag = "info"

with_user_any_id(info, mal_id, user_data) ==
    IF ~IsInfo(info) THEN NoneInfo
    ELSE IF DOMAIN user_data # {}
         THEN [info EXCEPT !.in_user_list = TRUE,
                           !.user_status = IF mal_id \in DOMAIN user_data
                                           THEN user_data[mal_id] ELSE @]
         ELSE info

\* the copy fetch_anime_info_with_user returns, overlaid with the user's list
with_user(info, mal_id, user_data) ==
    IF ~IsInfo(info) THEN NoneInfo
    ELSE IF mal_id \in DOMAIN user_data
         THEN [info EXCEPT !.user_status = user_data[mal_id], !.in_user_list = TRUE]
         ELSE info

\* request URLs: one per endpoint and id
Url(kind, id) == <<kind, id>>
Urls == {"detail", "relations", "characters"} \X AllIds

\* fetch_mal_api(url) as one step: what it can do given the cache record.
\*   "raise": pickle.load fails on an unreadable record (outside any try)
\*   "data" : the cached data, or a fresh response that is then cached
\*   "none" : every attempt failed
\* (for an id the catalogue does not have, every attempt fails)
fetch_outcomes(c, url) ==
    IF c[url] = "unreadable" THEN {"raise"}
    ELSE IF c[url] = "valid" THEN {"data"}
    ELSE IF url[2] \in NonPositiveIds THEN {"none"}
    ELSE {"data", "none"}

cache_after(c, url, outcome) ==
    IF c[url] = "absent" /\ outcome = "data" THEN [c EXCEPT ![url] = "valid"] ELSE c

\* fetch_anime_info_cached(mal_id): the memoized value, or a fetch of the detail
info_outcomes(m, c, id) ==
    IF m[id] # Unset THEN {"memo"} ELSE fetch_outcomes(c, Url("detail", id))

\* lru_cache keeps every value returned, None included; nothing when the call raised
memo_after(m, id, outcome) ==
    IF outcome = "data" THEN [m EXCEPT ![id] = fetch_anime_info(id)]
    ELSE IF outcome = "none" THEN [m EXCEPT ![id] = NoneInfo]
    ELSE m

overlay_in_place(m, id, info) == IF IsInfo(info) THEN [m EXCEPT ![id] = info] ELSE m

\* line 462, info = dict(info): the list status is written to a copy, and the
\* dictionary the lru_cache holds stays as it is
overlay_on_copy(m, id, info) == m

put_nothing(d, k, v) == d

put_alone(d, k, v) == [x \in {k} |-> v]

\* d[k] = v
Put(d, k, v) == [x \in DOMAIN d \cup {k} |-> IF x = k THEN v ELSE d[x]]

EmptyMap == [x \in {} |-> NoneInfo]

mark_nothing(seen, rid) == seen

\* visited.add(rid)
mark_visited(seen, rid) == seen \cup {rid}

never_visited(rid, seen) == FALSE

\* rid in visited
already_visited(rid, seen) == rid \in seen

\* ------------------------------------------------------------------------
\* State
\* ------------------------------------------------------------------------
VARIABLES
    root_title,       \* build_franchise_tree: root_info['title']
    root_keywords,    \* build_franchise_tree: extract_root_keywords(root_info)
    root_characters,  \* build_franchise_tree: fetch_root_characters(root_id)
    relation_type,    \* label of the edge of the entry last classified
    rtitle,           \* entry.get('name', '') of the entry last classified
    same_called,      \* is_same_franchise has been called on (relation_type, rtitle)
    same_ret,         \* what it returned
    strong_called,    \* is_strong_franchise_match has been called on rtitle
    strong_ret,       \* what it returned
    root_studios,     \* studios of the root entry (no call passes them to the classifier)
    related_studios   \* studios of the entry last classified (likewise)

classifier_vars == <<root_title, root_keywords, root_characters, relation_type, rtitle,
                     same_called, same_ret, strong_called, strong_ret,
                     root_studios, related_studios>>

VARIABLES
    pc,               \* where build_franchise_tree is: "idle", "start", "loop" (top of
                      \* the while), "entries" (inside the for loops), "returned", "raised"
    root_id,          \* argument root_id, when it is an int
    root_is_int,      \* isinstance(root_id, int)
    user_anime_data,  \* argument user_anime_data: id -> status
    franchise,        \* local franchise: id -> info
    visited,          \* local visited
    queue,            \* local queue of <<id, depth>>
    current_id,       \* local current_id
    depth,            \* local depth
    result,           \* the map returned
    info_memo,        \* lru_cache of fetch_anime_info_cached: id -> Unset, NoneInfo or info
    cache,            \* api_cache directory: url -> "absent", "valid" or "unreadable"
    enqueued,         \* history: every <<id, depth>> appended to queue, in order
    expansions,       \* history: every <<id, depth>> fetch_related_anime was called for
    pending,          \* in a scenario: the entries of `relations` the for loops have not reached
    requested,        \* history: every url fetch_mal_api was called with
    labels_seen       \* history, kept by the walk that observes its labels: the labels
                      \* of the entries with an int id that the responses held, and
                      \* of those among them that were passed to is_same_franchise,
                      \* and the ids of the entries it refused

walk_vars == <<pc, root_id, root_is_int, user_anime_data, franchise, visited, queue,
               current_id, depth, result, info_memo, cache,
               enqueued, expansions, world, pending, requested, labels_seen>>

\* fetch_mal_api seen from the cache directory: the processes that call it
VARIABLES
    cache_files,      \* api_cache: url -> "absent", "partial" (opened for writing, not
                      \* yet dumped), "unreadable", or the response pickled in the file
    fetch_pc,         \* process -> where its call is: "idle", "exists", "pace", "load",
                      \* "attempt", "open", "dump", "done"
    fetch_url,        \* process -> argument url
    attempt,          \* process -> requests made by the call so far
    data,             \* process -> local data (r.json())
    returned,         \* process -> what the call returned, or "raise"
    found,            \* process -> what the call found in the cache
    record_writes,    \* history: url -> times the cache file was opened for writing
    first_returned,   \* history: url -> the first response an ended call returned
    prev_call,        \* history: url -> [found, requests, returned] of the last ended call
    calls_started,    \* history: number of calls made
    overlap,          \* whether calls of different processes may overlap in time
    last_wait         \* process -> how its last request ended and the time.sleep that
                      \* followed, in tenths of a second

fetch_vars == <<cache_files, fetch_pc, fetch_url, attempt, data, returned, found,
                record_writes, first_returned, prev_call, calls_started, overlap,
                last_wait>>

vars == <<classifier_vars, walk_vars, fetch_vars>>

\* the processes, the request urls they fetch and the bodies the API can answer with
Procs == 1..MaxProcs
FetchUrls == {"url1", "url2"}
Responses == {"body1", "body2"}

NoCall == [found |-> "unset", requests |-> 0, returned |-> "unset"]

\* no request of the call has failed
NoWait == [after |-> "none", slept |-> 0]

\* no process is inside fetch_mal_api, and none has called it
FetchIdle ==
    /\ cache_files = [u \in FetchUrls |-> "absent"]
    /\ fetch_pc = [p \in Procs |-> "idle"]
    /\ fetch_url = [p \in Procs |-> "url1"]
    /\ attempt = [p \in Procs |-> 0]
    /\ data = [p \in Procs |-> "unset"]
    /\ returned = [p \in Procs |-> "unset"]
    /\ found = [p \in Procs |-> "unset"]
    /\ record_writes = [u \in FetchUrls |-> 0]
    /\ first_returned = [u \in FetchUrls |-> "unset"]
    /\ prev_call = [u \in FetchUrls |-> NoCall]
    /\ calls_started = 0
    /\ overlap = FALSE
    /\ last_wait = [p \in Procs |-> NoWait]

\* ------------------------------------------------------------------------
\* Inputs of the classifier: titles made of words
\* ------------------------------------------------------------------------
Words == { <<"A","b","c">>, <<"X","y","z">>, <<"a","b">> }

Separators == { <<" ">>, <<" ","x"," ">>, <<"×">> }

\* titles of at most n words, joined by blanks
RECURSIVE PlainTitles(_)
PlainTitles(n) ==
    IF n = 0 THEN {<<>>}
    ELSE PlainTitles(n - 1) \cup Words
         \cup {t \o <<" ">> \o w : t \in PlainTitles(n - 1) \ {<<>>}, w \in Words}

\* titles of at most n words, joined by a blank or by a crossover separator
RECURSIVE CrossoverTitles(_)
CrossoverTitles(n) ==
    IF n = 0 THEN {<<>>}
    ELSE CrossoverTitles(n - 1) \cup Words
         \cup {t \o sep \o w : t \in CrossoverTitles(n - 1) \ {<<>>},
                               sep \in Separators, w \in Words}

RootTitles == PlainTitles(MaxRootWords)
RelatedTitles == CrossoverTitles(MaxRelatedWords)

\* names fetch_root_characters can return: it keeps only truthy names
CharacterLists == { {}, {<<"X","y","z">>} }

\* labels an edge can carry: the allowed ones, and some the traversal filters out
RelationLabels == ALLOWED_RELATIONS \cup {"Special", "Adaptation", NoneLabel}

\* the dictionary fetch_anime_info returns carries 'title' and neither
\* 'title_english' nor 'synonyms'
RootInfo(title) == [title |-> title]

\* ------------------------------------------------------------------------
\* The classifier on its own: the two calls the traversal makes for one entry
\* ------------------------------------------------------------------------
ClassifierIdle ==
    /\ relation_type = NoneLabel
    /\ rtitle = <<>>
    /\ same_called = FALSE
    /\ same_ret = FALSE
    /\ strong_called = FALSE
    /\ strong_ret = FALSE

\* the root's signature, as build_franchise_tree derives it from the root detail
InitSignature ==
    /\ root_title \in RootTitles
    /\ root_keywords = extract_root_keywords(RootInfo(root_title))
    /\ root_characters \in CharacterLists

\* no traversal is running
WalkIdle ==
    /\ pc = "idle"
    /\ root_id = 1
    /\ root_is_int = TRUE
    /\ user_anime_data = <<>>
    /\ franchise = <<>>
    /\ visited = {}
    /\ queue = <<>>
    /\ current_id = 0
    /\ depth = 0
    /\ result = <<>>
    /\ info_memo = [i \in AllIds |-> Unset]
    /\ cache = [u \in Urls |-> "absent"]
    /\ enqueued = <<>>
    /\ expansions = {}
    /\ world = "open"
    /\ pending = <<>>
    /\ requested = {}
    /\ labels_seen = NoLabels

InitClassify ==
    /\ InitSignature
    /\ ClassifierIdle
    /\ WalkIdle
    /\ FetchIdle
    /\ root_studios = {}
    /\ related_studios = {}

\* is_same_franchise on the entry, then is_strong_franchise_match if it passed
ClassifyEntry(label, title) ==
    LET same == is_same_franchise(root_title, title, label, root_characters, root_keywords)
    IN  /\ relation_type' = label
        /\ rtitle' = title
        /\ same_called' = TRUE
        /\ same_ret' = same
        /\ strong_called' = same
        /\ strong_ret' = IF same
                         THEN is_strong_franchise_match(root_title, title,
                                                        root_keywords, root_characters)
                         ELSE FALSE

Classify ==
    /\ ~same_called
    /\ \E label \in RelationLabels, title \in RelatedTitles : ClassifyEntry(label, title)
    /\ UNCHANGED <<root_title, root_keywords, root_characters, root_studios, related_studios>>
    /\ UNCHANGED <<walk_vars, fetch_vars>>

NextClassify == Classify

SpecClassify == InitClassify /\ [][NextClassify]_vars

\* The same call on an edge with a promotional label, for entries whose studios are known
StudioSets == { {}, {"Studio A"}, {"Studio B"} }

InitClassifyStudios ==
    /\ InitSignature
    /\ ClassifierIdle
    /\ WalkIdle
    /\ FetchIdle
    /\ root_studios \in StudioSets
    /\ related_studios = {}

ClassifyPromotional ==
    /\ ~same_called
    /\ \E label \in conditional_relations, title \in RelatedTitles : ClassifyEntry(label, title)
    /\ related_studios' \in StudioSets
    /\ UNCHANGED <<root_title, root_keywords, root_characters, root_studios>>
    /\ UNCHANGED <<walk_vars, fetch_vars>>

NextClassifyStudios == ClassifyPromotional

SpecClassifyStudios == InitClassifyStudios /\ [][NextClassifyStudios]_vars

\* ------------------------------------------------------------------------
\* Properties of the classifier
\* ------------------------------------------------------------------------
\* the labels the membership policy accepts without looking at the titles
\* (Side story in both spellings the source of the labels uses)
PolicyAlwaysMember ==
    { "Side story", "Side Story", "Spin-off", "Character", "Summary", "Full story",
      "Parent story", "Alternative version", "Alternate setting" }

PolicyPromotional == { "Other", "Special" }

\* number of root keywords that occur in the lower-cased candidate title
KeywordHits == Cardinality({k \in root_keywords : In(k, Lower(rtitle))})

\* at least 60% of a non-empty keyword set occurs in the candidate title
KeywordRule == root_keywords # {} /\ KeywordHits * 5 >= Cardinality(root_keywords) * 3

\* the candidate title shares nothing with the root: no containment, no keyword, no name
Unrelated ==
    /\ ~In(Lower(root_title), Lower(rtitle))
    /\ ~In(Lower(rtitle), Lower(root_title))
    /\ KeywordHits = 0
    /\ \A c \in root_characters : ~In(Lower(c), Lower(rtitle))

\* C6 as stated: for every always-accept label is_same_franchise returns true
\* regardless of the candidate title, an empty or missing one included.
C6_AlwaysAcceptAnyTitle ==
    (same_called /\ relation_type \in PolicyAlwaysMember /\ root_title # <<>>) => same_ret

\* C6 amended: for every always-accept label is_same_franchise returns true for
\* every non-empty candidate title, whatever its content, when the root title is
\* non-empty; for an empty or missing title it returns false.
C6_AlwaysAcceptNonEmptyTitle ==
    (same_called /\ relation_type \in PolicyAlwaysMember)
        => (same_ret <=> (root_title # <<>> /\ rtitle # <<>>))

\* an always-accept label accepted a title that shares nothing with the root
C6_Witness ==
    same_called /\ relation_type \in PolicyAlwaysMember /\ rtitle # <<>> /\ Unrelated /\ same_ret

\* C8: for a label that is neither always-accept nor Other/Special, is_same_franchise
\* returns true iff the root keyword set is non-empty and
\* (keywords found in the lower-cased candidate title) * 5 >= (keywords) * 3.
C8_FallbackKeywordRatio ==
    (same_called /\ relation_type \notin PolicyAlwaysMember \cup PolicyPromotional)
        => (same_ret <=> KeywordRule)

\* a fallback label accepted on two keywords out of two, and one refused on one out of two
C8_Witness ==
    /\ same_called /\ relation_type = "Adaptation"
    /\ Cardinality(root_keywords) = 2 /\ KeywordHits = 1 /\ ~same_ret

\* C9 as stated: label Sequel yields membership whatever the candidate title and
\* the root keywords are (stated for non-empty titles).
C9_SequelAlwaysMember ==
    (same_called /\ relation_type = "Sequel" /\ root_title # <<>> /\ rtitle # <<>>) => same_ret

\* C9 amended: label Sequel is decided by the keyword rule of the other labels:
\* true iff the keyword set is non-empty and at least 60% of it occurs in the title.
C9_SequelByKeywordRatio ==
    (same_called /\ relation_type = "Sequel")
        => (same_ret = (root_keywords # {} /\ 5 * KeywordHits >= 3 * Cardinality(root_keywords)))

\* a Sequel entry accepted because its title carries the root keywords
C9_Witness ==
    same_called /\ relation_type = "Sequel" /\ same_ret /\ KeywordHits = Cardinality(root_keywords)

\* C7: for a label in {Other, Special} the definition in effect returns true iff
\* the titles contain one another, or the candidate contains a root keyword or a
\* root character name, or root and candidate share a studio, or the fuzzy
\* token-set similarity of the two titles is >= 85 (stated for non-empty titles).
C7_PromotionalPolicy ==
    (same_called /\ relation_type \in PolicyPromotional /\ root_title # <<>> /\ rtitle # <<>>)
        => (same_ret <=>
              \/ In(Lower(root_title), Lower(rtitle)) \/ In(Lower(rtitle), Lower(root_title))
              \/ KeywordHits > 0
              \/ \E c \in root_characters : In(Lower(c), Lower(rtitle))
              \/ root_studios \cap related_studios # {}
              \/ token_set_ratio_reaches_threshold(root_title, rtitle))

\* the base-match condition of the strong match on a piece of the lower-cased title
BaseMatch(piece) ==
    \/ In(Lower(root_title), piece)
    \/ \E k \in root_keywords : In(k, piece)
    \/ \E c \in root_characters : In(Lower(c), piece)

\* where a crossover separator starts in t, and how long it is
SeparatorAt(t, i) ==
    IF i + 2 <= Len(t) /\ SubSeq(t, i, i + 2) = <<" ", "x", " ">> THEN 3
    ELSE IF t[i] = "×" THEN 1
    ELSE 0

HasSeparator(t) == \E i \in 1..Len(t) : SeparatorAt(t, i) > 0

\* the segments of t between its crossover separators
RECURSIVE Segments(_)
Segments(t) ==
    LET at == {i \in 1..Len(t) : SeparatorAt(t, i) > 0}
        i == CHOOSE j \in at : \A k \in at : j <= k
    IN  IF at = {} THEN {t}
        ELSE {SubSeq(t, 1, i - 1)} \cup Segments(SubSeq(t, i + SeparatorAt(t, i), Len(t)))

\* C10: is_strong_franchise_match returns true iff the base match holds for the
\* whole candidate title and, when the title contains " x " or "×", for every
\* segment between the separators.
C10_StrongMatchEverySegment ==
    strong_called
        => (strong_ret <=>
              /\ BaseMatch(Lower(rtitle))
              /\ HasSeparator(Lower(rtitle))
                    => \A seg \in Segments(Lower(rtitle)) : BaseMatch(seg))

\* a crossover title with a matching segment and a segment that does not match
C10_Witness ==
    /\ strong_called /\ HasSeparator(Lower(rtitle)) /\ ~strong_ret
    /\ \E seg \in Segments(Lower(rtitle)) : BaseMatch(seg)


\* ------------------------------------------------------------------------
\* build_franchise_tree
\* ------------------------------------------------------------------------
\* the user's list given to the call: id 1 with a status, the other ids absent
UserLists == { <<"Completed">> }

\* the ids the catalogue has entries for
CatalogueIds == IF world \in Scenarios THEN ScenarioIds ELSE Ids

\* the cache directory outlives the process: at the start it is empty, or holds
\* one record that an interrupted write cut short
InitialCaches ==
    {[u \in Urls |-> "absent"]}
    \cup {[u \in Urls |-> IF u = bad THEN "unreadable" ELSE "absent"] :
            bad \in {"detail", "relations", "characters"} \X CatalogueIds}

\* the root ids a call is given: in the open catalogue any id and the ints that
\* are no id, in a scenario the root of the scenario
RootIds == IF world \in Scenarios THEN {1} ELSE Ids \cup NonPositiveIds

Init ==
    /\ pc = "start"
    /\ world \in Worlds
    /\ root_id \in RootIds
    /\ root_is_int \in BOOLEAN
    /\ user_anime_data \in UserLists
    /\ franchise = EmptyMap
    /\ visited = {}
    /\ queue = <<>>
    /\ current_id = 0
    /\ depth = 0
    /\ result = EmptyMap
    /\ info_memo = [i \in AllIds |-> Unset]
    /\ cache \in InitialCaches
    /\ enqueued = <<>>
    /\ expansions = {}
    /\ pending = <<>>
    /\ requested = {}
    /\ labels_seen = NoLabels
    /\ root_title = <<>>
    /\ root_keywords = {}
    /\ root_characters = {}
    /\ ClassifierIdle
    /\ FetchIdle
    /\ root_studios = {}
    /\ related_studios = {}

\* what fetch_anime_info_with_user(id, user_anime_data) returns once the memo is m
info_with_user(m, id) == with_user(m[id], id, user_anime_data)

\* the request fetch_anime_info_cached(id) issues: none when the value is memoized
detail_requests(m, id) == IF m[id] # Unset THEN {} ELSE {Url("detail", id)}

popleft_keep(q) == q

pop_rest(q) == SubSeq(q, 1, Len(q) - 1)

\* the queue after queue.popleft()
popleft_rest(q) == Tail(q)

child_depth_from_bound(d) == MAX_DEPTH + 1

\* depth + 1
child_depth(d) == d + 1

\* lines 555-575: the type check, the seeding of queue and visited, the root
\* detail, the keywords and the characters
Start ==
    /\ pc = "start"
    /\ UNCHANGED <<root_id, root_is_int, user_anime_data, current_id, depth,
                   expansions, relation_type, rtitle, same_called, same_ret,
                   strong_called, strong_ret, root_studios, related_studios,
                   world, pending, labels_seen, fetch_vars>>
    /\ IF ~root_is_int
       THEN /\ pc' = "returned"
            /\ result' = EmptyMap
            /\ UNCHANGED <<franchise, visited, queue, info_memo, cache, enqueued,
                           root_title, root_keywords, root_characters, requested>>
       ELSE /\ queue' = <<<<root_id, 0>>>>
            /\ enqueued' = <<<<root_id, 0>>>>
            /\ visited' = mark_visited({}, root_id)
            /\ \E o \in info_outcomes(info_memo, cache, root_id) :
                 LET m1 == memo_after(info_memo, root_id, o)
                     c1 == cache_after(cache, Url("detail", root_id), o)
                     root_info == info_with_user(m1, root_id)
                     r1 == requested \cup detail_requests(info_memo, root_id)
                 IN  /\ info_memo' = overlay_on_copy(m1, root_id, root_info)
                     /\ IF o = "raise"
                        THEN /\ pc' = "raised"
                             /\ cache' = c1
                             /\ requested' = r1
                             /\ UNCHANGED <<franchise, result, root_title, root_keywords,
                                            root_characters>>
                        ELSE IF ~IsInfo(root_info)
                        THEN /\ pc' = "returned"
                             /\ result' = EmptyMap
                             /\ cache' = c1
                             /\ requested' = r1
                             /\ UNCHANGED <<franchise, root_title, root_keywords,
                                            root_characters>>
                        ELSE \E oc \in fetch_outcomes(c1, Url("characters", root_id)) :
                               /\ root_title' = root_info.title
                               /\ root_keywords' = extract_root_keywords(root_info)
                               /\ cache' = cache_after(c1, Url("characters", root_id), oc)
                               /\ requested' = r1 \cup {Url("characters", root_id)}
                               /\ UNCHANGED result
                               /\ IF oc = "raise"
                                  THEN /\ pc' = "raised"
                                       /\ UNCHANGED <<franchise, root_characters>>
                                  ELSE /\ pc' = "loop"
                                       /\ root_characters' =
                                            IF oc = "data" THEN ApiCharacters(root_id) ELSE {}
                                       /\ franchise' = Put(franchise, root_id, root_info)

relations_failure_aborts(orel) == IF orel = "data" THEN "entries" ELSE "raised"

\* where the walk is after fetch_related_anime(current_id): in the for loops over
\* the response, or back at the top of the while loop when the fetch gave None
\* (fetch_related_anime returns []) or raised (the except clause)
after_relations(orel) == IF orel = "data" THEN "entries" ELSE "loop"

\* lines 577-589: one turn of the while loop up to the for loops: popleft, the
\* depth tests, the detail of the node and the fetch of its relations
Dequeue ==
    /\ pc = "loop"
    /\ queue # <<>>
    /\ UNCHANGED <<root_id, root_is_int, user_anime_data, visited, result, enqueued,
                   root_title, root_keywords, root_characters, classifier_vars, world,
                   labels_seen, fetch_vars>>
    /\ LET cur == Head(queue)[1]
           d == Head(queue)[2]
       IN  /\ queue' = popleft_rest(queue)
           /\ current_id' = cur
           /\ depth' = d
           /\ IF d > MAX_DEPTH
              THEN /\ pc' = "loop"
                   /\ UNCHANGED <<franchise, info_memo, cache, expansions, pending, requested>>
              ELSE \E o \in (IF d > 0 THEN info_outcomes(info_memo, cache, cur) ELSE {"skip"}) :
                     LET m1 == memo_after(info_memo, cur, o)
                         c1 == cache_after(cache, Url("detail", cur), o)
                         anime_info == info_with_user(m1, cur)
                         r1 == IF d > 0 THEN requested \cup detail_requests(info_memo, cur)
                               ELSE requested
                     IN  /\ info_memo' = IF d > 0 THEN overlay_on_copy(m1, cur, anime_info)
                                                   ELSE m1
                         /\ franchise' = IF d > 0 /\ o # "raise" /\ IsInfo(anime_info)
                                         THEN Put(franchise, cur, anime_info)
                                         ELSE franchise
                         /\ IF o = "raise"
                            THEN /\ pc' = "raised"
                                 /\ cache' = c1
                                 /\ requested' = r1
                                 /\ UNCHANGED <<expansions, pending>>
                            ELSE IF d < MAX_DEPTH
                            THEN \E orel \in fetch_outcomes(c1, Url("relations", cur)) :
                                   /\ cache' = cache_after(c1, Url("relations", cur), orel)
                                   /\ requested' = r1 \cup {Url("relations", cur)}
                                   /\ expansions' = expansions \cup {<<cur, d>>}
                                   /\ pc' = after_relations(orel)
                                   /\ pending' = IF orel = "data" /\ world \in Scenarios
                                                 THEN ScenarioRelations(world, cur) ELSE <<>>
                            ELSE /\ pc' = "loop"
                                 /\ cache' = c1
                                 /\ requested' = r1
                                 /\ UNCHANGED <<expansions, pending>>

\* lines 592 and 597: the entry gets to the call of is_same_franchise (line 602)
\* when the label of its edge is in ALLOWED_RELATIONS and its id is an int
reaches_classifier(label, rid_is_int) == label \in ALLOWED_RELATIONS /\ rid_is_int

\* lines 590-615: the body of the two for loops for one related entry
ProcessEntry(label, rid_is_int, rid, name) ==
    /\ pc = "entries"
    /\ UNCHANGED <<root_id, root_is_int, user_anime_data, current_id, depth, result,
                   expansions, root_title, root_keywords, root_characters, classifier_vars,
                   world, fetch_vars>>
    /\ IF \/ ~reaches_classifier(label, rid_is_int)
          \/ ~is_same_franchise(root_title, name, label, root_characters, root_keywords)
          \/ already_visited(rid, visited)
       THEN UNCHANGED <<pc, franchise, visited, queue, info_memo, cache, enqueued, requested>>
       ELSE LET queue_traverse ==
                    is_strong_franchise_match(root_title, name, root_keywords, root_characters)
            IN  /\ queue' = IF queue_traverse
                            THEN Append(queue, <<rid, child_depth(depth)>>) ELSE queue
                /\ enqueued' = IF queue_traverse
                               THEN Append(enqueued, <<rid, child_depth(depth)>>) ELSE enqueued
                /\ visited' = mark_visited(visited, rid)
                /\ requested' = requested \cup detail_requests(info_memo, rid)
                /\ \E o \in info_outcomes(info_memo, cache, rid) :
                     LET m1 == memo_after(info_memo, rid, o)
                     IN  /\ info_memo' = overlay_on_copy(m1, rid, info_with_user(m1, rid))
                         /\ cache' = cache_after(cache, Url("detail", rid), o)
                         /\ IF o = "raise"
                            \* caught by the except clause: the rest of the response is dropped
                            THEN pc' = "loop" /\ UNCHANGED franchise
                            ELSE /\ pc' = "entries"
                                 /\ franchise' = Put(franchise, rid, info_with_user(m1, rid))

\* entry.get('mal_id') of a related entry: an id, or a value that is no int
EntryIds == [is_int : {TRUE}, id : Ids] \cup {[is_int |-> FALSE, id |-> 0]}

\* the for loops reach the next entry, in the open catalogue: any entry
NextEntry ==
    /\ world = "open"
    /\ \E label \in EdgeLabels, e \in EntryIds, name \in EntryNames :
         ProcessEntry(label, e.is_int, e.id, name)
    /\ UNCHANGED <<pending, labels_seen>>

\* the for loops reach the next entry of any response, and the labels are noted
NextEntryObserved ==
    /\ world = "open"
    /\ \E label \in EdgeLabels, e \in EntryIds, name \in EntryNames :
         /\ ProcessEntry(label, e.is_int, e.id, name)
         /\ labels_seen' =
               [reached |-> IF e.is_int THEN labels_seen.reached \cup {label}
                            ELSE labels_seen.reached,
                classified |-> IF reaches_classifier(label, e.is_int)
                               THEN labels_seen.classified \cup {label}
                               ELSE labels_seen.classified,
                rejected |-> IF /\ reaches_classifier(label, e.is_int)
                                /\ ~is_same_franchise(root_title, name, label,
                                                      root_characters, root_keywords)
                             THEN labels_seen.rejected \cup {e.id}
                             ELSE labels_seen.rejected]
    /\ UNCHANGED pending

\* the for loops reach the next entry, in a scenario: the next one of the response
NextPendingEntry ==
    /\ world \in Scenarios
    /\ pending # <<>>
    /\ ProcessEntry(Head(pending).label, Head(pending).is_int,
                    Head(pending).id, Head(pending).name)
    /\ pending' = Tail(pending)
    /\ UNCHANGED labels_seen

\* the for loops run out of entries
EndRelations ==
    /\ pc = "entries"
    /\ world = "open" \/ pending = <<>>
    /\ pc' = "loop"
    /\ UNCHANGED <<root_id, root_is_int, user_anime_data, franchise, visited, queue,
                   current_id, depth, result, info_memo, cache, enqueued,
                   expansions, classifier_vars, world, pending, requested, labels_seen,
                   fetch_vars>>

\* line 619: the while loop ends on an empty queue
Return ==
    /\ pc = "loop"
    /\ queue = <<>>
    /\ pc' = "returned"
    /\ result' = franchise
    /\ UNCHANGED <<root_id, root_is_int, user_anime_data, franchise, visited, queue,
                   current_id, depth, info_memo, cache, enqueued,
                   expansions, classifier_vars, world, pending, requested, labels_seen,
                   fetch_vars>>

Next == Start \/ Dequeue \/ NextEntry \/ NextPendingEntry \/ EndRelations \/ Return

Spec == Init /\ [][Next]_vars

\* the call on the open catalogue, where a response is any finite list of entries
InitOpen == Init /\ world = "open"

NextOpen == Start \/ Dequeue \/ NextEntry \/ EndRelations \/ Return

\* the call is sequential and every step of it ends (requests time out, sleeps
\* are finite), and a relations response is a finite list, so the for loops end
SpecLive ==
    /\ InitOpen /\ [][NextOpen]_vars
    /\ WF_vars(Start) /\ WF_vars(Dequeue) /\ WF_vars(EndRelations) /\ WF_vars(Return)

\* the user's list given to a second call of the same process: empty, or id 2
\* alone
SecondUserLists == { <<>>, [i \in {2} |-> "Watching"] }

\* the process calls build_franchise_tree again after a call returned, with
\* the same root and another list: the locals are new, the lru_cache and the
\* cache directory stay
CallAgain ==
    /\ pc = "returned"
    /\ user_anime_data \in UserLists
    /\ pc' = "start"
    /\ user_anime_data' \in SecondUserLists
    /\ franchise' = EmptyMap /\ visited' = {} /\ queue' = <<>>
    /\ current_id' = 0 /\ depth' = 0 /\ result' = EmptyMap
    /\ enqueued' = <<>> /\ expansions' = {} /\ pending' = <<>> /\ requested' = {}
    /\ root_title' = <<>> /\ root_keywords' = {} /\ root_characters' = {}
    /\ UNCHANGED <<root_id, root_is_int, info_memo, cache, world, labels_seen,
                   relation_type, rtitle,
                   same_called, same_ret, strong_called, strong_ret,
                   root_studios, related_studios, fetch_vars>>

\* two calls of one process on the open catalogue, the first with an empty
\* cache directory
InitTwoCalls ==
    /\ InitOpen /\ root_is_int /\ root_id = 1
    /\ cache = [u \in Urls |-> "absent"]

NextTwoCalls == Start \/ Dequeue \/ NextEntry \/ EndRelations \/ Return \/ CallAgain

SpecTwoCalls == InitTwoCalls /\ [][NextTwoCalls]_vars

\* one call on the open catalogue, observed for the labels it reaches and
\* classifies and the ids it refuses
InitLabels == InitOpen /\ root_is_int /\ root_id = 1

NextLabels == Start \/ Dequeue \/ NextEntryObserved \/ EndRelations \/ Return

SpecLabels == InitLabels /\ [][NextLabels]_vars

\* ------------------------------------------------------------------------
\* Properties of the walk
\* ------------------------------------------------------------------------
\* the root detail was fetched: the memo holds a detail dictionary for the root
RootDetailFetched == info_memo[root_id].tag = "info"

\* C1: the returned map contains the root id iff the root detail fetch
\* succeeded, and is empty when it did not succeed.
C1_RootInMapIffDetailFetched ==
    pc = "returned"
        => /\ (root_id \in DOMAIN result) <=> RootDetailFetched
           /\ ~RootDetailFetched => DOMAIN result = {}

\* a map returned with the root and two related entries
C1_Witness ==
    pc = "returned" /\ root_id \in DOMAIN result /\ Cardinality(DOMAIN result) = 3

\* C2: within one call no id is appended to the queue more than once.
C2_EnqueuedAtMostOnce ==
    \A i, j \in DOMAIN enqueued : enqueued[i][1] = enqueued[j][1] => i = j

\* a node below the root is being expanded when every id has already been seen:
\* each entry of its response leads back to a visited id
C2_Witness ==
    pc = "entries" /\ depth > 0 /\ visited = Ids /\ Len(enqueued) = Cardinality(Ids)

C4_NeverRaises == root_is_int => pc # "raised"

\* C5: the call terminates on every relation graph, cycles and self-references
\* included: the queue runs empty and the map is returned, unless a fetch
\* raised out of the call.
C5_Terminates == <>(pc = "returned" \/ pc = "raised")

\* a map returned after nodes at two depths were expanded and every id was seen
C5_Witness ==
    /\ pc = "returned" /\ queue = <<>> /\ visited = Ids
    /\ \E e \in expansions : e[2] > 0

\* ------------------------------------------------------------------------
\* The worked scenarios, and the entries the walk skips
\* ------------------------------------------------------------------------
\* the ids appended to the queue so far
EnqueuedIds == {enqueued[i][1] : i \in DOMAIN enqueued}

\* the relations response of the root was delivered (fetched once, then cached)
RootRelationsDelivered == cache[Url("relations", root_id)] = "valid"

\* C11: in scenario A (root 1 "Alpha Quest", one edge Sequel -> 2 "Alpha Quest
\* II"), when the root detail and the root's relations were fetched, the map
\* returned has exactly the keys 1 and 2, and id 2 was appended to the queue at
\* depth 1 and its relations were fetched.
C11_ScenarioA ==
    (world = "A" /\ pc = "returned" /\ RootDetailFetched /\ RootRelationsDelivered)
        => /\ DOMAIN result = {1, 2}
           /\ \E i \in DOMAIN enqueued : enqueued[i] = <<2, 1>>
           /\ <<2, 1>> \in expansions

\* scenario A ran to its end with the detail of both entries in the map
C11_Witness ==
    /\ world = "A" /\ pc = "returned" /\ DOMAIN result = {1, 2}
    /\ IsInfo(result[1]) /\ IsInfo(result[2])
    /\ <<2, 1>> \in expansions

\* number of root keywords in the lower-cased name of an entry
EntryKeywordHits(name) == Cardinality({k \in root_keywords : In(k, Lower(name))})

\* the membership policy refuses an entry with this label and name
PolicyRejects(label, name) ==
    \/ root_title = <<>> \/ name = <<>>
    \/ /\ label \in PolicyPromotional
       /\ ~In(Lower(root_title), Lower(name)) /\ ~In(Lower(name), Lower(root_title))
       /\ EntryKeywordHits(name) = 0
       /\ \A c \in root_characters : ~In(Lower(c), Lower(name))
    \/ /\ label \notin PolicyAlwaysMember \cup PolicyPromotional
       /\ ~(root_keywords # {}
            /\ EntryKeywordHits(name) * 5 >= Cardinality(root_keywords) * 3)

\* a step of the for loops that changes the map or the queue is no step on an
\* entry the policy refuses
RejectedEntrySkipped ==
    (pc = "entries" /\ (franchise' # franchise \/ queue' # queue))
        => /\ world = "open" =>
                \A label \in EdgeLabels, name \in EntryNames :
                    PolicyRejects(label, name) =>
                        \A e \in EntryIds : ~ProcessEntry(label, e.is_int, e.id, name)
           /\ world \in Scenarios =>
                ~PolicyRejects(Head(pending).label, Head(pending).name)

\* C12: a step that processes an entry for which is_same_franchise is false adds
\* no key to the map and appends nothing to the queue; in scenario B (edge Other
\* -> 3 "Random Unrelated Show") id 3 is never a key of the map and never queued.
C12_RejectedEntrySkipped ==
    /\ [][RejectedEntrySkipped]_vars
    /\ [](world = "B" => (3 \notin DOMAIN franchise /\ 3 \notin EnqueuedIds
                           /\ 3 \notin DOMAIN result))

\* scenario B returned after its one entry was reached and skipped
C12_Witness ==
    /\ world = "B" /\ pc = "returned" /\ RootRelationsDelivered
    /\ DOMAIN result = {1} /\ visited = {1}

\* C13 as stated: an entry that passes membership and fails the strong match is
\* recorded in the map and never expanded: only ids that were queued are
\* expanded, and in scenario C (edge Other -> 4 "Alpha Quest x Beta Saga", and
\* 4 -Side story-> 2) once the entry was reached id 4 is a key of the map, is
\* never queued, its relations are never requested and id 2 is not recorded.
C13_CrossoverRecordedNotExpanded ==
    /\ \A e \in expansions : e[1] \in EnqueuedIds
    /\ (world = "C" /\ 4 \in visited)
          => /\ 4 \in DOMAIN franchise
             /\ 4 \notin EnqueuedIds
             /\ Url("relations", 4) \notin requested
             /\ 2 \notin DOMAIN franchise

\* the step fetched the relations of the node it dequeued and got None: every
\* request failed, so no record was written
RelationsFetchFailed ==
    /\ pc = "loop" /\ expansions' # expansions
    /\ cache'[Url("relations", current_id')] = "absent"

\* the step fetched the detail of rid and got None
DetailFetchFailed(rid) == info_memo[rid] = Unset /\ info_memo'[rid] = NoneInfo

\* a step in which a request failed leaves the walk running and the rest of the
\* queue and of the map as they were
FailedFetchDegradesOnlyItself ==
    /\ RelationsFetchFailed
          => /\ pc' = "loop"
             /\ queue' = Tail(queue)
             /\ visited' = visited
             /\ DOMAIN franchise' \subseteq DOMAIN franchise \cup {current_id'}
    /\ \A rid \in AllIds :
          (pc = "entries" /\ DetailFetchFailed(rid))
              => /\ pc' = "entries"
                 /\ rid \in DOMAIN franchise' => ~IsInfo(franchise'[rid])
                 /\ Len(queue') >= Len(queue) /\ SubSeq(queue', 1, Len(queue)) = queue
                 /\ \A k \in DOMAIN franchise \ {rid} :
                       k \in DOMAIN franchise' /\ franchise'[k] = franchise[k]

\* every pair that was queued was dequeued, and expanded when below the bound
EveryQueuedNodeProcessed ==
    /\ queue = <<>>
    /\ \A i \in DOMAIN enqueued : enqueued[i][2] < MAX_DEPTH => enqueued[i] \in expansions

\* C21: a request that fails with retries exhausted degrades only itself: a
\* failed relations fetch makes the node a leaf, a failed detail fetch of an
\* entry leaves that entry without detail, the walk goes on, and when the map is
\* returned every node that was queued has been dequeued and processed.
C21_FailedFetchDegradesOnlyItself ==
    /\ [][FailedFetchDegradesOnlyItself]_vars
    /\ []((pc = "returned" /\ root_id \in DOMAIN result) => EveryQueuedNodeProcessed)

\* a map returned after the relations fetch of one node failed, the detail
\* fetch of an entry failed, and another node was expanded from its response
C21_Witness ==
    /\ pc = "returned" /\ root_id \in DOMAIN result
    /\ \E e1, e2 \in expansions :
          /\ cache[Url("relations", e1[1])] = "absent"
          /\ cache[Url("relations", e2[1])] = "valid"
    /\ \E k \in DOMAIN result : result[k] = NoneInfo

\* C22 as stated: every key of the map returned is mapped to a detail
\* dictionary, never to None, also when the detail fetch of an entry failed.
C22_EveryKeyHasDetail ==
    pc = "returned" => \A k \in DOMAIN result : IsInfo(result[k])

\* the list status of a detail dictionary is the one the list ul gives id k
StatusFrom(info, k, ul) ==
    /\ info.in_user_list = (k \in DOMAIN ul)
    /\ info.user_status = IF k \in DOMAIN ul THEN ul[k] ELSE "Not in list"

\* C23: the overlay never changes the memoized detail, and in a second call of
\* the same process, made with another list, every entry of the map carries the
\* list status that the second list alone gives it.
C23_OverlayNotMemoized ==
    /\ \A id \in AllIds : IsInfo(info_memo[id]) => StatusFrom(info_memo[id], id, <<>>)
    /\ user_anime_data \in SecondUserLists
          => /\ \A k \in DOMAIN franchise :
                   IsInfo(franchise[k]) => StatusFrom(franchise[k], k, user_anime_data)
             /\ \A k \in DOMAIN result :
                   IsInfo(result[k]) => StatusFrom(result[k], k, user_anime_data)

\* a second call returned the detail of id 1 from the memo, where the first
\* call's list had id 1 and the second call's list has id 2 alone
C23_Witness ==
    /\ pc = "returned" /\ user_anime_data = [i \in {2} |-> "Watching"]
    /\ Url("detail", 1) \notin requested
    /\ {1, 2} \subseteq DOMAIN result /\ IsInfo(result[1]) /\ IsInfo(result[2])
    /\ result[1].user_status = "Not in list" /\ result[2].user_status = "Watching"

\* C24: every entry of the map with a detail has in_user_list true iff its id
\* is a key of the list given to the call, the list's status for the id when it
\* is a key, and "Not in list" when it is not.
C24_ListStatusFromOverlay ==
    /\ \A k \in DOMAIN franchise :
          IsInfo(franchise[k]) => StatusFrom(franchise[k], k, user_anime_data)
    /\ \A k \in DOMAIN result :
          IsInfo(result[k])
              => /\ result[k].in_user_list <=> k \in DOMAIN user_anime_data
                 /\ k \in DOMAIN user_anime_data
                       => result[k].user_status = user_anime_data[k]
                 /\ k \notin DOMAIN user_anime_data
                       => result[k].user_status = "Not in list"

\* a map returned with an entry that is in the list and one that is not
C24_Witness ==
    /\ pc = "returned" /\ DOMAIN user_anime_data = {2}
    /\ {1, 2} \subseteq DOMAIN result /\ IsInfo(result[1]) /\ IsInfo(result[2])
    /\ result[2].in_user_list /\ result[2].user_status = user_anime_data[2]
    /\ ~result[1].in_user_list /\ result[1].user_status = "Not in list"

\* the keywords of the three sources the API gives for an id: its title, its
\* English title and its synonyms
KeywordsOfAllTitles(id) ==
    clean_and_add(ApiDefaultTitle(id)) \cup clean_and_add(ApiEnglishTitle(id))
        \cup UNION {clean_and_add(ApiSynonyms(id)[i]) : i \in DOMAIN ApiSynonyms(id)}

\* C25 as stated: the keyword set a walk uses is the union of the tokens of the
\* root's title, its English title and each of its synonyms, without stopwords
\* and without tokens of length <= 2.
C25_KeywordsFromAllTitles ==
    root_id \in DOMAIN franchise => root_keywords = KeywordsOfAllTitles(root_id)

\* the entry reaches line 606 with an id that is not in visited: its label is
\* allowed, its id is an int and is_same_franchise accepts it
PassesUnvisited(label, rid_is_int, rid, name) ==
    /\ label \in ALLOWED_RELATIONS /\ rid_is_int
    /\ is_same_franchise(root_title, name, label, root_characters, root_keywords)
    /\ rid \notin visited

\* what lines 606-615 are to do for an entry: mark, record, and queue at
\* depth + 1 iff the strong match holds
MarkedRecordedQueued(rid, name) ==
    /\ rid \in visited'
    /\ rid \in DOMAIN franchise'
    /\ IF is_strong_franchise_match(root_title, name, root_keywords, root_characters)
       THEN queue' = Append(queue, <<rid, depth + 1>>)
       ELSE queue' = queue

\* a step of the for loops on an entry that passes, with an unvisited id
PassingEntryProcessed ==
    (pc = "entries" /\ visited' # visited)
        => /\ world = "open" =>
                \A label \in EdgeLabels, e \in EntryIds, name \in EntryNames :
                    (PassesUnvisited(label, e.is_int, e.id, name)
                        /\ ProcessEntry(label, e.is_int, e.id, name))
                            => MarkedRecordedQueued(e.id, name)
           /\ world \in Scenarios =>
                (PassesUnvisited(Head(pending).label, Head(pending).is_int,
                                 Head(pending).id, Head(pending).name)
                    => MarkedRecordedQueued(Head(pending).id, Head(pending).name))

\* C26 as stated: one step on an entry that passes is_same_franchise and whose
\* id is not visited marks the id visited, records it as a key of the map, and
\* appends (id, depth + 1) to the queue iff is_strong_franchise_match is true.
C26_PassingEntryMarkedRecordedQueued == [][PassingEntryProcessed]_vars

\* C27: in every state of a walk, every key of the map (and of the map
\* returned) is in visited; with C28, no key ever leaves the map, so these are
\* all the keys the map ever had.
C27_KeysAreVisited ==
    DOMAIN franchise \subseteq visited /\ DOMAIN result \subseteq visited

\* every id is a key of the map while a response is still being processed
C27_Witness ==
    pc = "entries" /\ DOMAIN franchise = Ids /\ visited = Ids /\ depth > 0

\* a step removes no id from visited and no key from the map, and leaves the
\* value of every key the map has
VisitedAndMapGrow ==
    /\ visited \subseteq visited'
    /\ \A k \in DOMAIN franchise : k \in DOMAIN franchise' /\ franchise'[k] = franchise[k]

\* C28: during one walk visited only grows and the map is append-only: no step
\* removes an id from visited and no step removes a key from the map.
C28_VisitedAndMapGrow == [][VisitedAndMapGrow]_vars

\* the map and visited have grown to three ids and the queue still has nodes
C28_Witness ==
    /\ pc = "loop" /\ queue # <<>>
    /\ Cardinality(DOMAIN franchise) = 3 /\ Cardinality(visited) = 3

\* the except clause of line 616 has caught an error in this walk: the relations
\* fetch of an expanded node raised, or the detail fetch of line 615 raised
\* after the id was marked (the only way an id is in visited and not a key)
ErrorWasCaught ==
    /\ root_id \in DOMAIN franchise
    /\ \/ \E e \in expansions : cache[Url("relations", e[1])] = "unreadable"
       \/ \E id \in visited : id \notin DOMAIN franchise

\* C29 as stated: after an error raised while the relations of a node were
\* fetched or processed was caught, the walk does not end by raising, and when
\* it returns every node that was queued has been dequeued and processed.
C29_CaughtErrorLeavesQueue ==
    ErrorWasCaught
        => /\ pc # "raised"
           /\ pc = "returned" => EveryQueuedNodeProcessed

\* the queue holds the pairs appended last, in the order they were appended,
\* and the depths of the pairs appended never decrease
QueueIsFifo ==
    /\ Len(queue) <= Len(enqueued)
    /\ queue = SubSeq(enqueued, Len(enqueued) - Len(queue) + 1, Len(enqueued))
    /\ \A i, j \in DOMAIN enqueued : i <= j => enqueued[i][2] <= enqueued[j][2]

\* a step that takes a pair from the queue takes its head, at a depth that is
\* not below the depth of the pair taken before
DequeuesHead ==
    (pc = "loop" /\ queue # <<>> /\ pc' # "returned")
        => /\ <<current_id', depth'>> = Head(queue)
           /\ depth' >= depth

\* in scenario D the ids queued from the root's response are in the order of
\* the response: 3 (Prequel, first entry) before 2 (Sequel, second entry)
ResponseOrderKept ==
    world = "D" =>
        \A i, j \in DOMAIN enqueued :
            (enqueued[i][1] = 3 /\ enqueued[j][1] = 2) => i < j

\* C33: entries are processed in the order of the response and the queue is
\* first-in first-out: ids queued while a node is expanded are dequeued in the
\* order their entries appeared, and the depths of the nodes dequeued one after
\* the other never decrease.
C33_FifoInResponseOrder ==
    /\ [](QueueIsFifo /\ ResponseOrderKept)
    /\ [][DequeuesHead]_vars

\* scenario D returned after the prequel and then the sequel were queued and
\* both were expanded
C33_Witness ==
    /\ world = "D" /\ pc = "returned"
    /\ enqueued = << <<1, 0>>, <<3, 1>>, <<2, 1>> >>
    /\ {<<3, 1>>, <<2, 1>>} \subseteq expansions

\* C34 as stated: the labels the walk passes to the classifier are exactly the
\* labels of the membership policy: every entry (with an int id) on an edge
\* labelled with an always-member label, Other or Special is classified, and
\* no entry on an edge with another label is.
C34_ClassifiedLabelsArePolicyLabels ==
    labels_seen.classified =
        labels_seen.reached \cap (PolicyAlwaysMember \cup PolicyPromotional)

\* a step that refuses an entry marks nothing and records nothing, and a step
\* on an entry that passes, for an id that was refused before and is not in
\* visited, marks the id and records it
RefusedIdStaysOpen ==
    /\ labels_seen'.rejected # labels_seen.rejected
          => visited' = visited /\ franchise' = franchise /\ queue' = queue
    /\ (pc = "entries" /\ visited' # visited)
          => \A label \in EdgeLabels, e \in EntryIds, name \in EntryNames :
                (/\ e.id \in labels_seen.rejected
                 /\ PassesUnvisited(label, e.is_int, e.id, name)
                 /\ ProcessEntry(label, e.is_int, e.id, name))
                    => e.id \in visited' /\ e.id \in DOMAIN franchise'

\* C35 as stated: an id that is_same_franchise refused on one edge is not
\* marked visited, so the same id is recorded later in the same walk when it is
\* reached through another edge on which is_same_franchise returns true.
C35_RefusedIdRecordedLater == [][RefusedIdStaysOpen]_vars

\* C36 as stated: the detail query of an id is passed to the fetcher at most
\* once per process whatever its outcome: once it was passed, its outcome is in
\* the lru_cache (the detail, or None for a failed fetch), and every later
\* request for the id is answered from there.
C36_DetailFetchedOnce ==
    \A id \in AllIds :
        Url("detail", id) \in requested
            => /\ info_memo[id] # Unset
               /\ detail_requests(info_memo, id) = {}
               /\ info_outcomes(info_memo, cache, id) = {"memo"}

\* lines 587-589: this turn of the while loop calls fetch_related_anime(id): the
\* node at the head of the queue is id, its depth is below MAX_DEPTH and its
\* detail fetch did not raise
FetchesRelationsOf(id) ==
    /\ pc = "loop" /\ queue # <<>>
    /\ Head(queue)[1] = id /\ Head(queue)[2] < MAX_DEPTH
    /\ pc' # "raised"

\* the relations of id were not fetched before in this call, and id was appended
\* to the queue
FirstRelationsFetchOfQueuedId(id) ==
    /\ Url("relations", id) \notin requested
    /\ \A d \in 0..MAX_DEPTH : <<id, d>> \notin expansions
    /\ id \in EnqueuedIds

\* C37: within one traversal the relations of an id are fetched at most once,
\* and only for ids that were appended to the queue; an id that is recorded in
\* the map without being queued never has its relations fetched.
C37_RelationsOncePerQueuedId ==
    /\ [][\A id \in AllIds : FetchesRelationsOf(id) => FirstRelationsFetchOfQueuedId(id)]_vars
    /\ [](\A id \in AllIds :
            /\ Url("relations", id) \in requested => id \in EnqueuedIds
            /\ (id \in DOMAIN franchise /\ id \notin EnqueuedIds)
                  => Url("relations", id) \notin requested)

\* a map returned with an id that was recorded without being queued, after the
\* relations of the root and of a queued id were fetched
C37_Witness ==
    /\ pc = "returned"
    /\ \E id \in DOMAIN result : id \notin EnqueuedIds
    /\ \E id \in EnqueuedIds : id # root_id /\ Url("relations", id) \in requested
    /\ Url("relations", root_id) \in requested

\* C39 as stated: when build_franchise_tree returns, every id that was ever
\* appended to the queue is a key of the returned map.
C39_QueuedIdsAreKeys ==
    pc = "returned" => EnqueuedIds \subseteq DOMAIN result

\* C39, amended: when build_franchise_tree returns after the detail of the root
\* was fetched, every id that was ever appended to the queue is a key of the
\* returned map, also when an error was raised and caught in the walk.
C39_QueuedIdsAreKeysBelowFetchedRoot ==
    (pc = "returned" /\ RootDetailFetched) => EnqueuedIds \subseteq DOMAIN result

\* a map returned after an error was caught, with the root and another queued
\* id among its keys
C39_Witness ==
    /\ pc = "returned" /\ RootDetailFetched /\ ErrorWasCaught
    /\ \E id \in EnqueuedIds : id # root_id
    /\ EnqueuedIds \subseteq DOMAIN result

\* C20 as stated: for a root id that is no int, or is zero or negative, the call
\* returns the empty map without a request and without a cache record written.
C20_InvalidRootNoFetch ==
    (pc = "returned" /\ (~root_is_int \/ root_id <= 0))
        => /\ DOMAIN result = {}
           /\ requested = {}
           /\ \A u \in Urls : cache[u] # "valid"

\* ------------------------------------------------------------------------
\* fetch_mal_api, step by step, on a cache directory that processes share
\* ------------------------------------------------------------------------
max_retries == 3

\* a record left in the directory by an earlier run: none, one that a killed
\* writer cut short, or a complete one
InitialRecords == {"absent", "unreadable", "body1"}

InitFetch ==
    /\ root_title = <<>> /\ root_keywords = {} /\ root_characters = {}
    /\ ClassifierIdle /\ WalkIdle
    /\ root_studios = {} /\ related_studios = {}
    /\ cache_files \in [FetchUrls -> InitialRecords]
    /\ fetch_pc = [p \in Procs |-> "idle"]
    /\ fetch_url = [p \in Procs |-> "url1"]
    /\ attempt = [p \in Procs |-> 0]
    /\ data = [p \in Procs |-> "unset"]
    /\ returned = [p \in Procs |-> "unset"]
    /\ found = [p \in Procs |-> "unset"]
    /\ record_writes = [u \in FetchUrls |-> 0]
    /\ first_returned = [u \in FetchUrls |-> "unset"]
    /\ prev_call = [u \in FetchUrls |-> NoCall]
    /\ calls_started = 0
    /\ overlap \in BOOLEAN
    /\ last_wait = [p \in Procs |-> NoWait]

FetchFrame == UNCHANGED <<classifier_vars, walk_vars, overlap>>

load_record_stale(record) == IF record \in Responses THEN "body1" ELSE "raise"

\* pickle.load(f) of a record: the body, or an exception on a record that is
\* cut short or still being written
load_record(record) == IF record \in Responses THEN record ELSE "raise"

\* open(cache_file, "wb"): the file exists from now on, and is empty
open_for_write(record) == "partial"

dump_nothing(record, body) == record

\* pickle.dump(data, f) and the close of the file
dump_record(record, body) == body

record_exists_never(record) == FALSE

record_exists_inverted(record) == record = "absent"

\* os.path.exists(cache_file)
record_exists(record) == record # "absent"

\* line 340: process p calls fetch_mal_api(u)
CallFetch(p, u) ==
    /\ fetch_pc[p] = "idle"
    /\ calls_started < MaxCalls
    /\ overlap \/ \A q \in Procs : fetch_pc[q] = "idle"
    /\ fetch_pc' = [fetch_pc EXCEPT ![p] = "exists"]
    /\ fetch_url' = [fetch_url EXCEPT ![p] = u]
    /\ attempt' = [attempt EXCEPT ![p] = 0]
    /\ data' = [data EXCEPT ![p] = "unset"]
    /\ returned' = [returned EXCEPT ![p] = "unset"]
    /\ found' = [found EXCEPT ![p] = "unset"]
    /\ calls_started' = calls_started + 1
    /\ last_wait' = [last_wait EXCEPT ![p] = NoWait]
    /\ UNCHANGED <<cache_files, record_writes, first_returned, prev_call>>
    /\ FetchFrame

\* line 346: os.path.exists(cache_file)
CheckExists(p) ==
    /\ fetch_pc[p] = "exists"
    /\ IF record_exists(cache_files[fetch_url[p]])
       THEN fetch_pc' = [fetch_pc EXCEPT ![p] = "load"] /\ UNCHANGED found
       ELSE /\ fetch_pc' = [fetch_pc EXCEPT ![p] = "pace"]
            /\ found' = [found EXCEPT ![p] = "absent"]
    /\ UNCHANGED <<cache_files, fetch_url, attempt, data, returned, record_writes,
                   first_returned, prev_call, calls_started, last_wait>>
    /\ FetchFrame

MISS_WAIT == 2

\* lines 350-351: time.sleep(0.2) when the file does not exist, in tenths of a
\* second
pacing_wait(exists) == IF exists THEN 0 ELSE MISS_WAIT

\* lines 350-351: the second os.path.exists(cache_file) and the pacing sleep
PaceOnMiss(p) ==
    /\ fetch_pc[p] = "pace"
    /\ LET slept == pacing_wait(record_exists(cache_files[fetch_url[p]]))
       IN  last_wait' = [last_wait EXCEPT ![p] =
                            IF slept > 0 THEN [after |-> "miss", slept |-> slept]
                            ELSE NoWait]
    /\ fetch_pc' = [fetch_pc EXCEPT ![p] = "attempt"]
    /\ UNCHANGED <<cache_files, fetch_url, attempt, data, returned, found, record_writes,
                   first_returned, prev_call, calls_started>>
    /\ FetchFrame

\* lines 347-348: open the record and return pickle.load(f)
LoadRecord(p) ==
    /\ fetch_pc[p] = "load"
    /\ LET got == load_record(cache_files[fetch_url[p]])
       IN  /\ fetch_pc' = [fetch_pc EXCEPT ![p] = "done"]
           /\ returned' = [returned EXCEPT ![p] = got]
           /\ found' = [found EXCEPT ![p] = IF got = "raise" THEN "unreadable" ELSE "valid"]
    /\ UNCHANGED <<cache_files, fetch_url, attempt, data, record_writes,
                   first_returned, prev_call, calls_started, last_wait>>
    /\ FetchFrame

RATE_LIMIT_WAIT == 20
FAILURE_WAIT == 10

no_wait(outcome) == 0

\* time.sleep(2) after a 429 (line 358), time.sleep(1) in the except clause
\* (line 368), in tenths of a second
wait_after(outcome) == IF outcome = "rate_limited" THEN RATE_LIMIT_WAIT ELSE FAILURE_WAIT

\* what one request ends as: 429, an exception (timeout, connection error, HTTP
\* error from raise_for_status, a body r.json() cannot parse), or a parsed body
RequestOutcomes == {"rate_limited", "exception"} \cup Responses

any_outcome_succeeded(outcome) == TRUE

\* lines 356-361: the status is not 429, raise_for_status() passes and r.json()
\* parses the body
request_succeeded(outcome) == outcome \in Responses

\* lines 354-361 and 367-368: one turn of the retry loop up to r.json()
Attempt(p) ==
    /\ fetch_pc[p] = "attempt"
    /\ attempt[p] < max_retries
    /\ attempt' = [attempt EXCEPT ![p] = @ + 1]
    /\ \E outcome \in RequestOutcomes :
         IF request_succeeded(outcome)
         THEN /\ data' = [data EXCEPT ![p] = outcome]
              /\ fetch_pc' = [fetch_pc EXCEPT ![p] = "open"]
              /\ last_wait' = [last_wait EXCEPT ![p] = NoWait]
         ELSE \* sleep and go to the next turn
              /\ last_wait' = [last_wait EXCEPT ![p] =
                                  [after |-> outcome, slept |-> wait_after(outcome)]]
              /\ UNCHANGED <<data, fetch_pc>>
    /\ UNCHANGED <<cache_files, fetch_url, returned, found, record_writes,
                   first_returned, prev_call, calls_started>>
    /\ FetchFrame

\* line 369: the loop ran max_retries times
GiveUp(p) ==
    /\ fetch_pc[p] = "attempt"
    /\ attempt[p] >= max_retries
    /\ fetch_pc' = [fetch_pc EXCEPT ![p] = "done"]
    /\ returned' = [returned EXCEPT ![p] = "None"]
    /\ UNCHANGED <<cache_files, fetch_url, attempt, data, found, record_writes,
                   first_returned, prev_call, calls_started, last_wait>>
    /\ FetchFrame

\* line 364: open(cache_file, "wb")
OpenRecord(p) ==
    /\ fetch_pc[p] = "open"
    /\ cache_files' = [cache_files EXCEPT ![fetch_url[p]] = open_for_write(@)]
    /\ record_writes' = [record_writes EXCEPT ![fetch_url[p]] = @ + 1]
    /\ fetch_pc' = [fetch_pc EXCEPT ![p] = "dump"]
    /\ UNCHANGED <<fetch_url, attempt, data, returned, found,
                   first_returned, prev_call, calls_started, last_wait>>
    /\ FetchFrame

\* lines 365-366: pickle.dump(data, f), close, return data
DumpAndReturn(p) ==
    /\ fetch_pc[p] = "dump"
    /\ cache_files' = [cache_files EXCEPT ![fetch_url[p]] = dump_record(@, data[p])]
    /\ returned' = [returned EXCEPT ![p] = data[p]]
    /\ fetch_pc' = [fetch_pc EXCEPT ![p] = "done"]
    /\ UNCHANGED <<fetch_url, attempt, data, found, record_writes,
                   first_returned, prev_call, calls_started, last_wait>>
    /\ FetchFrame

\* the caller goes on with what the call returned, and the locals of the call
\* are gone
EndFetch(p) ==
    /\ fetch_pc[p] = "done"
    /\ fetch_pc' = [fetch_pc EXCEPT ![p] = "idle"]
    /\ first_returned' =
          IF first_returned[fetch_url[p]] = "unset" /\ returned[p] \in Responses
          THEN [first_returned EXCEPT ![fetch_url[p]] = returned[p]]
          ELSE first_returned
    /\ prev_call' = [prev_call EXCEPT ![fetch_url[p]] =
                        [found |-> found[p], requests |-> attempt[p],
                         returned |-> returned[p]]]
    /\ last_wait' = [last_wait EXCEPT ![p] = NoWait]
    /\ UNCHANGED <<cache_files, fetch_url, attempt, data, returned, found,
                   record_writes, calls_started>>
    /\ FetchFrame

NextFetch ==
    \E p \in Procs :
        \/ \E u \in FetchUrls : CallFetch(p, u)
        \/ CheckExists(p)
        \/ PaceOnMiss(p)
        \/ LoadRecord(p)
        \/ Attempt(p)
        \/ GiveUp(p)
        \/ OpenRecord(p)
        \/ DumpAndReturn(p)
        \/ EndFetch(p)

\* calls of one process, or of processes that run one after the other
InitFetchSequential == InitFetch /\ overlap = FALSE

SpecFetchSequential == InitFetchSequential /\ [][NextFetch]_vars

\* calls of processes that run at the same time
InitFetchConcurrent == InitFetch /\ overlap = TRUE

SpecFetchConcurrent == InitFetchConcurrent /\ [][NextFetch]_vars

\* ------------------------------------------------------------------------
\* Properties of fetch_mal_api
\* ------------------------------------------------------------------------
\* process p is at the end of a call that follows an ended call for the same
\* request, and that earlier call found no record
SecondCallAfterMiss(p) ==
    fetch_pc[p] = "done" /\ prev_call[fetch_url[p]].found = "absent"

\* C14 as stated: two calls with the same url, one after the other, make exactly
\* one request in all, and the second returns what the first returned.
C14_OneRequestForTwoCalls ==
    \A p \in Procs :
        SecondCallAfterMiss(p)
            => /\ prev_call[fetch_url[p]].requests + attempt[p] = 1
               /\ returned[p] = prev_call[fetch_url[p]].returned

\* C14 amended: when the first of two calls with the same url, made one after
\* the other, returns a response, it made between 1 and max_retries requests,
\* and the second call makes no request and returns the same response; when the
\* first returns None it made max_retries requests and the second call finds no
\* record either.
C14_SecondCallReplaysFirstSuccess ==
    \A p \in Procs :
        SecondCallAfterMiss(p)
            => LET first == prev_call[fetch_url[p]]
               IN  /\ first.returned \in Responses \cup {"None"}
                   /\ first.returned \in Responses
                        => /\ first.requests \in 1..max_retries
                           /\ attempt[p] = 0
                           /\ returned[p] = first.returned
                   /\ first.returned = "None"
                        => /\ first.requests = max_retries
                           /\ found[p] = "absent"

\* the first call needed a retry, the second is served from the record
C14_Witness ==
    \E p \in Procs :
        /\ SecondCallAfterMiss(p)
        /\ prev_call[fetch_url[p]].requests = 2
        /\ prev_call[fetch_url[p]].returned \in Responses
        /\ attempt[p] = 0 /\ returned[p] = prev_call[fetch_url[p]].returned

\* C15 as stated: fetch_mal_api never raises, whatever the requests end as and
\* whatever the record is (absent, valid, unreadable).
C15_FetchNeverRaises == \A p \in Procs : returned[p] # "raise"

\* C16 as stated: a call that finds an unreadable record makes the request
\* again and returns its result instead of failing.
C16_UnreadableRecordIsMiss ==
    \A p \in Procs :
        (fetch_pc[p] = "done" /\ found[p] = "unreadable")
            => (attempt[p] >= 1 /\ returned[p] # "raise")

RecordsImmutable ==
    \A u \in FetchUrls : cache_files[u] \in Responses => cache_files'[u] = cache_files[u]

\* C18: across the calls of one process a record is written at most once per
\* url, and a complete record is never modified.
C18_RecordWrittenOnce ==
    /\ [](\A u \in FetchUrls : record_writes[u] <= 1)
    /\ [][RecordsImmutable]_vars

\* every call was made, both records were written once and one was read back
C18_Witness ==
    /\ calls_started = MaxCalls
    /\ \A u \in FetchUrls : record_writes[u] = 1 /\ cache_files[u] \in Responses
    /\ \E p \in Procs : fetch_pc[p] = "done" /\ found[p] = "valid"

\* a step in which a request of process p ends in a 429 is one turn of the loop
RateLimitCountsAsAttempt ==
    \A p \in Procs :
        (/\ fetch_pc[p] = "attempt" /\ last_wait'[p].after = "rate_limited"
         /\ (last_wait'[p] # last_wait[p] \/ attempt'[p] # attempt[p]))
            => /\ attempt'[p] = attempt[p] + 1
               /\ fetch_pc'[p] = "attempt"

\* the requests of a call and the waits between them
RetriesBoundedWithWaits ==
    \A p \in Procs :
        /\ attempt[p] <= max_retries
        /\ last_wait[p].after = "rate_limited" => last_wait[p].slept >= 20
        /\ last_wait[p].after = "exception" => last_wait[p].slept > 0
        /\ (fetch_pc[p] = "attempt" /\ attempt[p] >= 1)
              => last_wait[p].after \in {"rate_limited", "exception"}
        /\ (fetch_pc[p] = "done" /\ found[p] = "absent" /\ returned[p] \notin Responses)
              => /\ returned[p] = "None"
                 /\ attempt[p] = max_retries
                 /\ last_wait[p].after \in {"rate_limited", "exception"}

\* C30: on a cache miss a call makes at most max_retries (3) requests; a 429
\* counts as one of them and is followed by a wait of at least 2 s before the
\* next one, any other failure is followed by a shorter wait, and after the
\* last failed request the call returns None.
C30_BoundedRetriesWithWaits ==
    /\ []RetriesBoundedWithWaits
    /\ [][RateLimitCountsAsAttempt]_vars

\* a call returned None after three requests, the last of them rate-limited
C30_Witness ==
    \E p \in Procs :
        /\ fetch_pc[p] = "done" /\ found[p] = "absent" /\ returned[p] = "None"
        /\ attempt[p] = max_retries
        /\ last_wait[p] = [after |-> "rate_limited", slept |-> RATE_LIMIT_WAIT]

\* C31: a call that finds a complete record returns the stored data, makes no
\* request and sleeps at no point.
C31_HitWithoutRequestOrDelay ==
    \A p \in Procs :
        (fetch_pc[p] = "done" /\ found[p] = "valid")
            => /\ returned[p] = cache_files[fetch_url[p]]
               /\ attempt[p] = 0
               /\ last_wait[p] = NoWait

\* a call is served from a record that an earlier call wrote after a retry
C31_Witness ==
    \E p \in Procs :
        /\ fetch_pc[p] = "done" /\ found[p] = "valid" /\ returned[p] = "body2"
        /\ attempt[p] = 0 /\ last_wait[p] = NoWait
        /\ prev_call[fetch_url[p]].requests = 3

\* a step in which process p makes a request comes after a sleep of the call:
\* the pacing sleep, or the sleep that followed the previous request
RequestAfterWait ==
    \A p \in Procs :
        attempt'[p] = attempt[p] + 1 => last_wait[p].slept > 0

\* C32 as stated: the pacing sleep happens only on a cache miss, and every
\* request of a call, retries included, comes after a wait (the pacing sleep
\* or a retry wait) since the previous request of that call.
C32_EveryRequestPaced ==
    /\ [](\A p \in Procs : last_wait[p].after = "miss" => found[p] = "absent")
    /\ [][RequestAfterWait]_vars

\* lines 362-365: a step that creates or changes the record of url u is taken
\* by a call for u that holds the parsed body of a successful response
RecordChangeHasResponse(u) ==
    cache_files'[u] # cache_files[u]
        => \E p \in Procs :
              /\ fetch_url[p] = u /\ fetch_pc[p] \in {"open", "dump"}
              /\ attempt[p] >= 1 /\ data[p] \in Responses
              /\ cache_files'[u] \in {"partial", data[p]}

\* lines 357-359 and 367-369: a turn of the loop that ends in a 429 or in an
\* exception, and the return of None after the last turn, leave every record
\* as it is
FailureLeavesRecords(p) ==
    (/\ fetch_pc[p] = "attempt"
     /\ \/ attempt'[p] > attempt[p] /\ fetch_pc'[p] = "attempt"
        \/ fetch_pc'[p] = "done")
        => cache_files' = cache_files /\ record_writes' = record_writes

\* C38: a cache record is created or changed only by a call that got a
\* successful, parsable response for that request; a rate-limit response, an
\* HTTP error, a timeout and the end of the retries leave the cache as it is.
C38_RecordOnlyFromResponse ==
    /\ [][\A u \in FetchUrls : RecordChangeHasResponse(u)]_vars
    /\ [][\A p \in Procs : FailureLeavesRecords(p)]_vars
    /\ [](\A p \in Procs :
            fetch_pc[p] \in {"open", "dump"} => data[p] \in Responses)

\* a call that ran out of retries returns None with no record for its request,
\* while the other request, which got a response, has one
C38_Witness ==
    \E p \in Procs :
        /\ fetch_pc[p] = "done" /\ returned[p] = "None" /\ attempt[p] = max_retries
        /\ cache_files[fetch_url[p]] = "absent" /\ record_writes[fetch_url[p]] = 0
        /\ \E u \in FetchUrls : record_writes[u] = 1 /\ cache_files[u] \in Responses

\* C19 as stated: the record is published atomically: no process ever reads a
\* record that exists and holds only part of the response.
C19_NoPartialRecordRead ==
    \A p \in Procs : fetch_pc[p] = "load" => cache_files[fetch_url[p]] # "partial"

====
